---- MODULE Spec2Model ----
(***************************************************************************)
(* tf2onnx: the lookup-table handlers of the ML opset                      *)
(* (custom_opsets/onnx_ml.py), the broadcast handlers                      *)
(* (onnx_opset/common.py) and the conversion entry points (convert.py),    *)
(* running on the in-memory Graph and under the conversion driver.         *)
(***************************************************************************)
EXTENDS Integers, Sequences, FiniteSets, TLC

VARIABLES
    pc,        \* position of the conversion: "start", "dispatch", "done", "raised"
    entry,     \* the entry point that was called
    args,      \* what the caller supplied to the entry point
    kwargs,    \* the keyword arguments process_tf_graph received
    nodes,     \* Graph: the set of nodes
    shapes,    \* Graph: tensor id -> shape
    dtypes,    \* Graph: tensor id -> dtype
    calls,     \* history: the remove_node calls made, with the consumers found then
    todo,      \* driver: names of the nodes still to dispatch, in dependency order
    last,      \* driver: the last dispatch (node, handler version, outcome, graph before)
    failures,  \* driver: names of the nodes recorded as unconvertible
    registry,  \* handler registration: operation kind -> registered minimum versions
    err,       \* the error the conversion raised, "none" if none
    model,     \* the model _convert_common returned, NoModel while there is none
    written,   \* what was saved: NoFile, or the path and the model saved there
    cmdline    \* the options of the command line, as parse_args read them

vars == <<pc, entry, args, kwargs, nodes, shapes, dtypes, calls, todo, last, failures,
          registry, err, model, written, cmdline>>

----------------------------------------------------------------------------
(* Bounds of the model *)

MaxKeys == 2          \* longest initialized table
MaxChain == 2         \* longest Identity chain between a lookup and its table
MaxOpset == 8         \* highest requested target version

----------------------------------------------------------------------------
(* Values *)

None == "None"

Range(s) == {s[i] : i \in DOMAIN s}

Max(S) == CHOOSE x \in S : \A y \in S : y <= x

Min2(a, b) == IF a <= b THEN a ELSE b

\* a tensor value: dtype "string" uses s, dtype "int64" uses i
NoValue == [dtype |-> "none", s |-> "", i |-> 0]
StrValue(x) == [dtype |-> "string", s |-> x, i |-> 0]
IntValue(x) == [dtype |-> "int64", s |-> "", i |-> x]

\* a shape: None (unknown rank) or a list of dimensions
NoShape == [none |-> TRUE, dims |-> <<>>]
Shape(d) == [none |-> FALSE, dims |-> d]

NoAttr == [shared_name |-> None, value |-> NoValue, cats_strings |-> <<>>,
           cats_int64s |-> <<>>, default_int64 |-> NoValue, broadcast |-> -1]

Node(name, type, input, output, attr, domain) ==
    [name |-> name, type |-> type, input |-> input, output |-> output,
     attr |-> attr, domain |-> domain]

ONNX_DOMAIN == ""
AI_ONNX_ML_DOMAIN == "ai.onnx.ml"
TENSORFLOW_DOMAIN == "ai.onnx.converters.tensorflow"

----------------------------------------------------------------------------
(* Graph Model (spec section 4.1).  g is [nodes, shapes, dtypes, calls].   *)

get_node_by_name(g, name) == CHOOSE n \in g.nodes : n.name = name

has_node(g, name) == \E n \in g.nodes : n.name = name

get_node_by_output(g, t) == CHOOSE n \in g.nodes : t \in Range(n.output)

\* node.inputs[i]: the node producing input i (1-based here)
node_inputs(g, node, i) == get_node_by_output(g, node.input[i])

find_output_consumers(g, t) == {n \in g.nodes : t \in Range(n.input)}

\* the nodes other than name that consume one of name's outputs
consumers_of_node(g, name) ==
    {c.name : c \in {c \in g.nodes : c.name # name /\
        \E t \in Range(get_node_by_name(g, name).output) : t \in Range(c.input)}}

\* removes the node and nothing else (no cascade, no rewiring), so that a
\* handler can delete a node and emit a replacement with the same outputs
\* (section 4.2).  Removing a node that still has consumers is the
\* programming error of section 4.1: each call is recorded in calls with the
\* consumers the node had at that moment.
remove_node(g, name) ==
    [g EXCEPT !.nodes = {n \in g.nodes : n.name # name},
              !.calls = g.calls \cup {[node |-> name, consumers |-> consumers_of_node(g, name)]}]

make_node(g, node, shape, dtype) ==
    [g EXCEPT !.nodes = g.nodes \cup {node},
              !.shapes = [t \in DOMAIN g.shapes |->
                             IF t \in Range(node.output) THEN shape ELSE g.shapes[t]],
              !.dtypes = [t \in DOMAIN g.dtypes |->
                             IF t \in Range(node.output) THEN dtype ELSE g.dtypes[t]]]

\* make_const(name, value): a Const node called name whose output is name
make_const(g, name, val) ==
    make_node(g, Node(name, "Const", <<>>, <<name>>, [NoAttr EXCEPT !.value = val], ONNX_DOMAIN),
              Shape(<<>>), val.dtype)

replace_all_inputs(g, old, new) ==
    [g EXCEPT !.nodes = {[n EXCEPT !.input = [i \in DOMAIN n.input |->
                              IF n.input[i] = old THEN new ELSE n.input[i]]] : n \in g.nodes}]

is_const(n) == n.type = "Const"

get_tensor_value(n) == n.attr.value

----------------------------------------------------------------------------
(* Initialized tables: None, or shared name -> (keys, values)               *)

NoTables == [none |-> TRUE, tab |-> <<>>]
Tables(f) == [none |-> FALSE, tab |-> f]

\* mutant: .get(key) without the default
dict_zip_get_no_default(cats_strings, cats_int64s, key, default_val) ==
    LET n == Min2(Len(cats_strings), Len(cats_int64s))
        hits == {i \in 1..n : cats_strings[i] = key}
    IN IF hits = {} THEN NoValue ELSE IntValue(cats_int64s[Max(hits)])

\* dict(zip(cats_strings, cats_int64s)).get(key, default_val): zip stops at
\* the shorter list and a later pair overwrites an earlier one with the same key
dict_zip_get(cats_strings, cats_int64s, key, default_val) ==
    LET n == Min2(Len(cats_strings), Len(cats_int64s))
        hits == {i \in 1..n : cats_strings[i] = key}
    IN IF hits = {} THEN default_val ELSE IntValue(cats_int64s[Max(hits)])

----------------------------------------------------------------------------
(* Handlers of custom_opsets/onnx_ml.py.  Each returns the graph it leaves  *)
(* and the error it raised ("none" when it completed).                      *)

Done(g) == [g |-> g, err |-> "none"]
Raise(g, e) == [g |-> g, err |-> e]

RECURSIVE walk_identity(_, _)
walk_identity(g, n) ==
    IF n.type = "Identity" THEN walk_identity(g, node_inputs(g, n, 1)) ELSE n

\* mutant: the table node is removed without looking for its consumers
prune_table_always(g, table_node) == remove_node(g, table_node.name)

\* lines 69-71 and 92-94: the table node is removed when nothing consumes it
prune_table(g, table_node) ==
    IF find_output_consumers(g, table_node.output[1]) = {}
    THEN remove_node(g, table_node.name)
    ELSE g

HashTable_version_8(g, node, initialized_tables) == Done(g)

\* mutant: the default value is not checked to be constant
find_preconditions_no_default_check(g, node, initialized_tables) ==
    LET table_node == walk_identity(g, node_inputs(g, node, 1))
        shared_name == table_node.attr.shared_name
        dtype == g.dtypes[node.output[1]]
        in_dtype == g.dtypes[node.input[2]]
    IN IF shared_name = None THEN "no shared name"
       ELSE IF initialized_tables.none THEN "TypeError"
       ELSE IF shared_name \notin DOMAIN initialized_tables.tab THEN "table not found"
       ELSE IF ~(dtype = "int64" /\ in_dtype = "string") THEN "unsupported table type"
       ELSE "none"

\* lines 30-45: the make_sure checks, in order; "none" when all pass
find_preconditions(g, node, initialized_tables) ==
    LET table_node == walk_identity(g, node_inputs(g, node, 1))
        shared_name == table_node.attr.shared_name
        default_node == node_inputs(g, node, 3)
        dtype == g.dtypes[node.output[1]]
        in_dtype == g.dtypes[node.input[2]]
    IN IF shared_name = None THEN "no shared name"
       ELSE IF initialized_tables.none THEN "TypeError"
       ELSE IF shared_name \notin DOMAIN initialized_tables.tab THEN "table not found"
       ELSE IF ~is_const(default_node) THEN "default not const"
       ELSE IF ~(dtype = "int64" /\ in_dtype = "string") THEN "unsupported table type"
       ELSE "none"

\* lines 55-61: the Const node of a lookup whose key is constant
find_const_node(node, key, cats_strings, cats_int64s, default_val) ==
    Node(node.name, "Const", <<>>, node.output,
         [NoAttr EXCEPT !.value = dict_zip_get(cats_strings, cats_int64s, key.s, default_val)],
         ONNX_DOMAIN)

\* mutant: the mapper keeps all the inputs of the lookup
find_mapper_node_all_inputs(node, cats_strings, cats_int64s, default_val) ==
    Node(node.name, "CategoryMapper", node.input, node.output,
         [NoAttr EXCEPT !.cats_int64s = cats_int64s,
                        !.cats_strings = cats_strings,
                        !.default_int64 = default_val],
         AI_ONNX_ML_DOMAIN)

\* lines 64-67: the CategoryMapper node of a lookup whose key is not constant
find_mapper_node(node, cats_strings, cats_int64s, default_val) ==
    Node(node.name, "CategoryMapper", <<node.input[2]>>, node.output,
         [NoAttr EXCEPT !.cats_int64s = cats_int64s,
                        !.cats_strings = cats_strings,
                        !.default_int64 = default_val],
         AI_ONNX_ML_DOMAIN)

LookupTableFind_version_8(g, node, initialized_tables) ==
    LET table_node == walk_identity(g, node_inputs(g, node, 1))
        shared_name == table_node.attr.shared_name
        default_val == get_tensor_value(node_inputs(g, node, 3))
        dtype == g.dtypes[node.output[1]]
        cats_strings == initialized_tables.tab[shared_name][1]
        cats_int64s == initialized_tables.tab[shared_name][2]
        shape == g.shapes[node.output[1]]
        key == get_tensor_value(node_inputs(g, node, 2))
        e == find_preconditions(g, node, initialized_tables)
    IN IF e # "none" THEN Raise(g, e)
       ELSE IF is_const(node_inputs(g, node, 2))
            THEN Done(prune_table(
                     make_node(remove_node(g, node.name),
                               find_const_node(node, key, cats_strings, cats_int64s, default_val),
                               Shape(<<>>), dtype),
                     table_node))
            ELSE Done(prune_table(
                     make_node(remove_node(g, node.name),
                               find_mapper_node(node, cats_strings, cats_int64s, default_val),
                               shape, dtype),
                     table_node))

\* lines 77-83
size_preconditions(g, node, initialized_tables) ==
    LET table_node == walk_identity(g, node_inputs(g, node, 1))
        shared_name == table_node.attr.shared_name
    IN IF shared_name = None THEN "no shared name"
       ELSE IF initialized_tables.none THEN "TypeError"
       ELSE IF shared_name \notin DOMAIN initialized_tables.tab THEN "table not found"
       ELSE "none"

\* mutant: the consumers of the size node are not rewired
LookupTableSize_no_rewire(g, node, initialized_tables) ==
    LET table_node == walk_identity(g, node_inputs(g, node, 1))
        shared_name == table_node.attr.shared_name
        keys == initialized_tables.tab[shared_name][1]
        g1 == remove_node(g, node.name)
        g2 == make_const(g1, node.name, IntValue(Len(keys)))
        e == size_preconditions(g, node, initialized_tables)
    IN IF e # "none" THEN Raise(g, e)
       ELSE Done(prune_table(g2, table_node))

LookupTableSize_version_1(g, node, initialized_tables) ==
    LET table_node == walk_identity(g, node_inputs(g, node, 1))
        shared_name == table_node.attr.shared_name
        keys == initialized_tables.tab[shared_name][1]
        g1 == remove_node(g, node.name)
        g2 == make_const(g1, node.name, IntValue(Len(keys)))
        size_const == get_node_by_name(g2, node.name)
        g3 == replace_all_inputs(g2, node.output[1], size_const.output[1])
        e == size_preconditions(g, node, initialized_tables)
    IN IF e # "none" THEN Raise(g, e)
       ELSE Done(prune_table(g3, table_node))

----------------------------------------------------------------------------
(* Handlers of onnx_opset/common.py: the node is changed in place.          *)

falsy(shape) == shape.none \/ shape.dims = <<>>

\* Node.scalar_to_dim1: the dims of the constant, a scalar becoming [1]
scalar_to_dim1(n, shape) == IF falsy(shape) THEN Shape(<<1>>) ELSE shape

is_target(target, flag) == flag \in target

TARGET_RS4 == "rs4"

\* mutant: the swap made for every kind of node
broadcast_inputs_any_type(g, node, target) ==
    LET s0 == g.shapes[node.input[1]]
        s1 == g.shapes[node.input[2]]
        rs4 == is_target(target, TARGET_RS4)
        shape0 == IF rs4 /\ falsy(s0) /\ is_const(node_inputs(g, node, 1))
                  THEN scalar_to_dim1(node_inputs(g, node, 1), s0) ELSE s0
        shape1 == IF rs4 /\ falsy(s1) /\ is_const(node_inputs(g, node, 2))
                  THEN scalar_to_dim1(node_inputs(g, node, 2), s1) ELSE s1
    IN IF ~falsy(shape0) /\ ~falsy(shape1) /\ Len(shape0.dims) < Len(shape1.dims)
       THEN <<node.input[2], node.input[1]>>
       ELSE node.input

\* lines 31-42 and 54-65, common to both versions: the input order they leave
broadcast_inputs(g, node, target) ==
    LET s0 == g.shapes[node.input[1]]
        s1 == g.shapes[node.input[2]]
        rs4 == is_target(target, TARGET_RS4)
        shape0 == IF rs4 /\ falsy(s0) /\ is_const(node_inputs(g, node, 1))
                  THEN scalar_to_dim1(node_inputs(g, node, 1), s0) ELSE s0
        shape1 == IF rs4 /\ falsy(s1) /\ is_const(node_inputs(g, node, 2))
                  THEN scalar_to_dim1(node_inputs(g, node, 2), s1) ELSE s1
    IN IF ~falsy(shape0) /\ ~falsy(shape1) /\ Len(shape0.dims) < Len(shape1.dims)
          /\ node.type \in {"Mul", "Add"}
       THEN <<node.input[2], node.input[1]>>
       ELSE node.input

update_node(g, node, new) == [g EXCEPT !.nodes = (g.nodes \ {node}) \cup {new}]

\* mutant: the flag set only where the shapes differ
BroadcastOp_version_4_no_else(g, node, target) ==
    IF g.shapes[node.input[1]] # g.shapes[node.input[2]]
    THEN Done(update_node(g, node, [node EXCEPT !.attr.broadcast = 1,
                                                !.input = broadcast_inputs(g, node, target)]))
    ELSE Done(g)

BroadcastOp_version_4(g, node, target) ==
    IF g.shapes[node.input[1]] # g.shapes[node.input[2]]
    THEN Done(update_node(g, node, [node EXCEPT !.attr.broadcast = 1,
                                                !.input = broadcast_inputs(g, node, target)]))
    ELSE Done(update_node(g, node, [node EXCEPT !.attr.broadcast = 0]))

BroadcastOp_version_7(g, node, target) ==
    IF g.shapes[node.input[1]] # g.shapes[node.input[2]]
    THEN Done(update_node(g, node, [node EXCEPT !.input = broadcast_inputs(g, node, target)]))
    ELSE Done(g)

----------------------------------------------------------------------------
(* Handler registry and dispatch (spec section 4.2)                         *)

BroadcastKinds == {"Add", "Mul", "Sub"}
DirectKinds == {"Const", "Placeholder", "Identity", "Cast"}

\* the registrations loaded at process start: the minimum versions of each
\* registered kind (the version_N methods of its handler class)
Registered ==
    [kind \in {"HashTableV2", "LookupTableFindV2", "LookupTableSizeV2"}
               \cup BroadcastKinds \cup DirectKinds |->
        CASE kind = "HashTableV2" -> {8}
          [] kind = "LookupTableFindV2" -> {8}
          [] kind = "LookupTableSizeV2" -> {1}
          [] kind \in BroadcastKinds -> {4, 7}
          [] OTHER -> {1}]

\* the handler list of a kind, empty when the kind has no registration at all
handlers_of(reg, kind) == IF kind \in DOMAIN reg THEN reg[kind] ELSE {}

NoHandler == 0

\* mutant: the first qualifying entry instead of the greatest
select_handler_first(versions, opset) ==
    LET ok == {v \in versions : v <= opset}
    IN IF ok = {} THEN NoHandler ELSE CHOOSE v \in ok : \A w \in ok : v <= w

\* the greatest registered minimum version not exceeding the requested one
select_handler(versions, opset) ==
    LET ok == {v \in versions : v <= opset}
    IN IF ok = {} THEN NoHandler ELSE Max(ok)

apply_handler(g, node, version, kw) ==
    CASE node.type = "HashTableV2" -> HashTable_version_8(g, node, kw.initialized_tables)
      [] node.type = "LookupTableFindV2" ->
             LookupTableFind_version_8(g, node, kw.initialized_tables)
      [] node.type = "LookupTableSizeV2" ->
             LookupTableSize_version_1(g, node, kw.initialized_tables)
      [] node.type \in BroadcastKinds /\ version = 4 -> BroadcastOp_version_4(g, node, kw.target)
      [] node.type \in BroadcastKinds /\ version # 4 -> BroadcastOp_version_7(g, node, kw.target)
      [] OTHER -> Done(g)

----------------------------------------------------------------------------
(* convert.py                                                               *)

\* a dictionary of custom-op handlers: None, or kind -> domain the handler tags
NoDict == [none |-> TRUE, map |-> <<>>]
Dict(f) == [none |-> FALSE, map |-> f]

has_custom_handler(d, kind) == ~d.none /\ kind \in DOMAIN d.map

\* main, lines 187-200: --custom-ops "Op:domain,Op" to the custom_ops map;
\* ops is the list of the option's items, domain None when the item has no ":"
main_custom_ops(ops) ==
    Dict([k \in {ops[i].op : i \in DOMAIN ops} |->
            LET i == Max({j \in DOMAIN ops : ops[j].op = k})
            IN IF ops[i].domain = None THEN TENSORFLOW_DOMAIN ELSE ops[i].domain])

\* model_proto = None (line 136), and no file saved
NoModel == [none |-> TRUE, nodes |-> {}]
NoFile == [path |-> None, model |-> NoModel]

\* the value of a list option or parameter: None, False, or a list of names
NoneValue == [kind |-> "None", names |-> <<>>]
FalseValue == [kind |-> "False", names |-> <<>>]
ListValue(l) == [kind |-> "list", names |-> l]

\* get_args, lines 96-105: a list option is split at its commas when it is
\* given; items are the option's items, none when the option is absent
split_comma(items) == IF items = <<>> THEN NoneValue ELSE ListValue(items)

\* the command line as argparse leaves it (lines 48-85): a source option is
\* None or a path, a list option the items between its commas, --extra_opset
\* the tokens between its colons, a flag a boolean
NoCommandLine ==
    [input |-> None, graphdef |-> None, checkpoint |-> None, saved_model |-> None,
     keras |-> None, tflite |-> None, inputs |-> <<>>, outputs |-> <<>>,
     dequantize |-> FALSE, extra_opset |-> <<>>]

\* int(tokens[1]) on the version tokens of the command lines considered
int(token) == CASE token = "1" -> 1 [] token = "2" -> 2

\* get_args, lines 90-91: the test that ends in the parser error about the
\* inputs and outputs of a graphdef or checkpoint model
get_args_checks_sources(a) ==
    (a.graphdef # None \/ a.checkpoint # None) /\ a.input = None /\ a.outputs = <<>>

\* get_args after parse_args, lines 86-119: the namespace it returns, how it
\* ends (returns, parser error, help and exit) and the parser error's message
get_args(cl) ==
    LET a == IF cl.input # None THEN [cl EXCEPT !.graphdef = cl.input] ELSE cl
        parsed == [a EXCEPT !.inputs = split_comma(a.inputs),
                            !.outputs = split_comma(a.outputs),
                            !.extra_opset =
                                IF Len(a.extra_opset) = 2
                                THEN <<[domain |-> a.extra_opset[1],
                                        version |-> int(a.extra_opset[2])]>>
                                ELSE <<>>]
    IN IF get_args_checks_sources(a)
       THEN [args |-> a, exit |-> "error",
             err |-> "graphdef and checkpoint models need to provide inputs and outputs"]
       ELSE IF \A o \in {a.graphdef, a.checkpoint, a.saved_model, a.keras, a.tflite} : o = None
       THEN [args |-> a, exit |-> "help", err |-> "none"]
       ELSE IF a.dequantize /\ a.tflite = None
       THEN [args |-> a, exit |-> "error",
             err |-> "dequantize flag is currently only supported for tflite"]
       ELSE IF a.extra_opset # <<>> /\ Len(a.extra_opset) # 2
       THEN [args |-> a, exit |-> "error", err |-> "invalid extra_opset argument"]
       ELSE [args |-> parsed, exit |-> "return", err |-> "none"]

\* the parameters of _convert_common with their defaults (lines 129-133)
ConvertDefaults ==
    [opset |-> 0, custom_ops |-> NoDict, custom_op_handlers |-> NoDict,
     ignore_default |-> FalseValue, continue_on_error |-> FALSE, target |-> {},
     initialized_tables |-> NoTables, output_path |-> None]

\* _convert_common, lines 148-164: the keyword arguments given to process_tf_graph
_convert_common(p) ==
    [continue_on_error |-> TRUE,
     target |-> p.target,
     opset |-> p.opset,
     custom_op_handlers |-> p.custom_ops,
     ignore_default |-> FalseValue,
     initialized_tables |-> p.initialized_tables]

\* main, lines 235-254
main_call(a) ==
    [ConvertDefaults EXCEPT !.continue_on_error = a.continue_on_error,
                            !.target = a.target,
                            !.opset = a.opset,
                            !.custom_op_handlers = main_custom_ops(a.cli_custom_ops),
                            !.ignore_default = split_comma(a.ignore_default),
                            !.initialized_tables = a.initialized_tables,
                            !.output_path = a.output_path]

\* from_keras 310-324, from_function 363-377, from_graph 422-436
api_call(a) ==
    [ConvertDefaults EXCEPT !.continue_on_error = TRUE,
                            !.target = {},
                            !.opset = a.opset,
                            !.custom_op_handlers = a.custom_ops,
                            !.initialized_tables = NoTables,
                            !.output_path = a.output_path]

----------------------------------------------------------------------------
(* The frozen graphs the loader hands over                                  *)

KeyPool == <<"a", "b", "c", "d", "e", "f">>
KeyName(i) == KeyPool[i]

IdName(k) == "id" \o ToString(k)
Out(name) == name \o ":0"

\* the resource tensor after k Identity nodes
ResName(k) == IF k = 0 THEN Out("table") ELSE Out(IdName(k))

Tensors ==
    {Out(n) : n \in {"table", "key", "dflt", "find", "size", "use", "use2",
                     "x", "y", "bop", "myop"}}
    \cup {Out(IdName(k)) : k \in 1..MaxChain} \cup {"find", "size"}

Faults == {"none", "no shared name", "default not const", "table type"}

GraphParams ==
    [chain : 0..MaxChain, hasFind : BOOLEAN, hasSize : BOOLEAN, sizeLevel : 0..MaxChain,
     key : {None, "z"} \cup {KeyName(i) : i \in 1..MaxKeys},
     fault : Faults, dflt : {0, 9}, bop : {"Add", "Sub"}, hasMyOp : BOOLEAN]

\* every table and Identity node of a loaded graph is consumed; the graphs
\* vary in the lookup part or in the rest, not in both at once
WellFormed(p) ==
    /\ p.hasFind \/ p.hasSize
    /\ p.hasSize => p.sizeLevel \in {0, p.chain}
    /\ ~p.hasSize => p.sizeLevel = 0
    /\ ~p.hasFind => p.sizeLevel = p.chain /\ p.key = None
    /\ p.fault \in {"default not const", "table type"} => p.hasFind
    /\ p.fault # "none" => p.key = None
    /\ p.key # "z" => p.dflt = 0
    /\ p.bop # "Add" \/ p.hasMyOp =>
          /\ p.chain = 1 /\ p.hasFind /\ p.hasSize /\ p.sizeLevel = 1
          /\ p.key = None /\ p.fault = "none"

GraphNodes(p) ==
    {Node("table", "HashTableV2", <<>>, <<Out("table")>>,
          [NoAttr EXCEPT !.shared_name = IF p.fault = "no shared name" THEN None ELSE "t1"],
          ONNX_DOMAIN),
     Node("x", "Placeholder", <<>>, <<Out("x")>>, NoAttr, ONNX_DOMAIN),
     Node("y", "Placeholder", <<>>, <<Out("y")>>, NoAttr, ONNX_DOMAIN),
     Node("bop", p.bop, <<Out("x"), Out("y")>>, <<Out("bop")>>, NoAttr, ONNX_DOMAIN)}
    \cup {Node(IdName(k), "Identity", <<ResName(k - 1)>>, <<Out(IdName(k))>>, NoAttr, ONNX_DOMAIN)
            : k \in 1..p.chain}
    \cup (IF p.hasFind
          THEN {Node("key", IF p.key = None THEN "Placeholder" ELSE "Const", <<>>, <<Out("key")>>,
                     [NoAttr EXCEPT !.value = IF p.key = None THEN NoValue ELSE StrValue(p.key)],
                     ONNX_DOMAIN),
                Node("dflt", IF p.fault = "default not const" THEN "Placeholder" ELSE "Const",
                     <<>>, <<Out("dflt")>>,
                     [NoAttr EXCEPT !.value = IF p.fault = "default not const"
                                               THEN NoValue ELSE IntValue(p.dflt)],
                     ONNX_DOMAIN),
                Node("find", "LookupTableFindV2", <<ResName(p.chain), Out("key"), Out("dflt")>>,
                     <<Out("find")>>, NoAttr, ONNX_DOMAIN),
                Node("use", "Cast", <<Out("find")>>, <<Out("use")>>, NoAttr, ONNX_DOMAIN)}
          ELSE {})
    \cup (IF p.hasSize
          THEN {Node("size", "LookupTableSizeV2", <<ResName(p.sizeLevel)>>, <<Out("size")>>,
                     NoAttr, ONNX_DOMAIN),
                Node("use2", "Cast", <<Out("size")>>, <<Out("use2")>>, NoAttr, ONNX_DOMAIN)}
          ELSE {})
    \cup (IF p.hasMyOp
          THEN {Node("myop", "MyOp", <<Out("x")>>, <<Out("myop")>>, NoAttr, ONNX_DOMAIN)}
          ELSE {})

\* a lookup with a constant key is a scalar lookup
GraphShapes(p) ==
    [t \in Tensors |->
        CASE t \in {Out("key"), Out("find"), Out("use")} ->
                 IF p.key = None THEN Shape(<<2>>) ELSE Shape(<<>>)
          [] t \in {Out("dflt"), Out("size"), Out("use2")} -> Shape(<<>>)
          [] t = Out("x") -> Shape(<<2>>)
          [] t \in {Out("y"), Out("bop"), Out("myop")} -> Shape(<<1, 2>>)
          [] OTHER -> NoShape]

GraphDtypes(p) ==
    [t \in Tensors |->
        CASE t = Out("key") -> "string"
          [] t \in {Out("find"), Out("use")} ->
                 IF p.fault = "table type" THEN "string" ELSE "int64"
          [] t \in {Out("dflt"), Out("size"), Out("use2")} -> "int64"
          [] t \in {Out("x"), Out("y"), Out("bop"), Out("myop")} -> "float"
          [] OTHER -> "resource"]

\* the nodes in dependency order
GraphOrder(p) ==
    <<"table">> \o [k \in 1..p.chain |-> IdName(k)]
    \o (IF p.hasFind THEN <<"key", "dflt", "find", "use">> ELSE <<>>)
    \o (IF p.hasSize THEN <<"size", "use2">> ELSE <<>>)
    \o <<"x", "y", "bop">>
    \o (IF p.hasMyOp THEN <<"myop">> ELSE <<>>)

\* the initialized tables a loader returns: None, or the tables by shared name
TableChoices ==
    {NoTables, Tables(<<>>)}
    \cup {Tables([n \in {"t1"} |-> <<[i \in 1..k |-> KeyName(i)], [i \in 1..k |-> i]>>])
            : k \in 0..MaxKeys}

Opsets == 6..MaxOpset

\* --ignore_default: absent, or its comma-separated items
CliIgnoreDefault == {<<>>, <<"ph">>}

\* --output / output_path: absent or a path
OutputPaths == {None, "model.onnx"}

CliCustomOps ==
    {<<>>, <<[op |-> "MyOp", domain |-> "my.domain"]>>, <<[op |-> "MyOp", domain |-> None]>>}

ApiCustomOps == {NoDict, Dict([k \in {"MyOp"} |-> "my.domain"])}

NoArgs ==
    [continue_on_error |-> FALSE, cli_custom_ops |-> <<>>, custom_ops |-> NoDict,
     custom_op_handlers |-> NoDict, ignore_default |-> <<>>, opset |-> 0, target |-> {},
     initialized_tables |-> NoTables, output_path |-> None]

NoLast == [node |-> None, version |-> 0, err |-> "none",
           before |-> [nodes |-> {}, shapes |-> <<>>, dtypes |-> <<>>]]

Init ==
    /\ pc = "start"
    /\ entry = None
    /\ args = NoArgs
    /\ kwargs = _convert_common(ConvertDefaults)
    /\ \E p \in GraphParams :
          /\ WellFormed(p)
          /\ nodes = GraphNodes(p)
          /\ shapes = GraphShapes(p)
          /\ dtypes = GraphDtypes(p)
          /\ todo = GraphOrder(p)
    /\ calls = {}
    /\ last = NoLast
    /\ failures = {}
    /\ registry = Registered
    /\ err = "none"
    /\ model = NoModel
    /\ written = NoFile
    /\ cmdline = NoCommandLine

----------------------------------------------------------------------------
(* Entry points                                                             *)

Enter(name, a, p) ==
    /\ pc = "start"
    /\ entry' = name
    /\ args' = a
    /\ kwargs' = _convert_common(p)
    /\ pc' = "dispatch"
    /\ UNCHANGED <<nodes, shapes, dtypes, calls, todo, last, failures, registry, err,
                   model, written, cmdline>>

Main ==
    \E coe \in BOOLEAN, ops \in CliCustomOps, tabs \in TableChoices, v \in Opsets,
       igd \in CliIgnoreDefault, out \in OutputPaths :
        LET a == [NoArgs EXCEPT !.continue_on_error = coe, !.cli_custom_ops = ops,
                                !.opset = v, !.initialized_tables = tabs,
                                !.ignore_default = igd, !.output_path = out]
        IN Enter("main", a, main_call(a))

FromKeras ==
    \E co \in ApiCustomOps, coh \in ApiCustomOps, v \in Opsets, out \in OutputPaths :
        LET a == [NoArgs EXCEPT !.custom_ops = co, !.custom_op_handlers = coh, !.opset = v,
                                !.output_path = out]
        IN Enter("from_keras", a, api_call(a))

FromFunction ==
    \E co \in ApiCustomOps, coh \in ApiCustomOps, v \in Opsets, out \in OutputPaths :
        LET a == [NoArgs EXCEPT !.custom_ops = co, !.custom_op_handlers = coh, !.opset = v,
                                !.output_path = out]
        IN Enter("from_function", a, api_call(a))

FromGraph ==
    \E co \in ApiCustomOps, coh \in ApiCustomOps, v \in Opsets, out \in OutputPaths :
        LET a == [NoArgs EXCEPT !.custom_ops = co, !.custom_op_handlers = coh, !.opset = v,
                                !.output_path = out]
        IN Enter("from_graph", a, api_call(a))

----------------------------------------------------------------------------
(* Conversion driver (spec sections 4.2 and 7)                              *)

Graph == [nodes |-> nodes, shapes |-> shapes, dtypes |-> dtypes, calls |-> calls]

\* what the driver does with one node: the graph it leaves, the error raised,
\* whether the node is recorded as unconvertible, and the handler version used
dispatch_node(g, node, kw, reg) ==
    LET v == select_handler(handlers_of(reg, node.type), kw.opset)
        r == apply_handler(g, node, v, kw)
    IN IF v # NoHandler
       THEN [g |-> r.g, err |-> r.err, failed |-> FALSE, version |-> v]
       ELSE IF has_custom_handler(kw.custom_op_handlers, node.type)
       THEN [g |-> update_node(g, node,
                        [node EXCEPT !.domain = kw.custom_op_handlers.map[node.type]]),
             err |-> "none", failed |-> FALSE, version |-> v]
       ELSE IF kw.continue_on_error
       THEN [g |-> g, err |-> "none", failed |-> TRUE, version |-> v]
       ELSE [g |-> g, err |-> "unsupported op", failed |-> TRUE, version |-> v]

Dispatch ==
    /\ pc = "dispatch"
    /\ todo # <<>>
    /\ LET name == Head(todo)
           node == get_node_by_name(Graph, name)
           d == dispatch_node(Graph, node, kwargs, registry)
       IN IF ~has_node(Graph, name)
          THEN /\ todo' = Tail(todo)
               /\ UNCHANGED <<pc, nodes, shapes, dtypes, calls, last, failures, err>>
          ELSE /\ nodes' = d.g.nodes
               /\ shapes' = d.g.shapes
               /\ dtypes' = d.g.dtypes
               /\ calls' = d.g.calls
               /\ last' = [node |-> name, version |-> d.version, err |-> d.err,
                           before |-> [nodes |-> nodes, shapes |-> shapes, dtypes |-> dtypes]]
               /\ failures' = IF d.failed THEN failures \cup {name} ELSE failures
               /\ err' = d.err
               /\ pc' = IF d.err = "none" THEN "dispatch" ELSE "raised"
               /\ todo' = IF d.err = "none" THEN Tail(todo) ELSE todo
    /\ UNCHANGED <<entry, args, kwargs, registry, model, written, cmdline>>

\* the output tensors of the conversion: the tensors the loaded graph leaves
\* unconsumed
GraphOutputs == {Out(n) : n \in {"use", "use2", "bop", "myop", "probe"}}

\* the nodes of ns that a node of live reads from
feeding(ns, live) ==
    {n \in ns : \E m \in live : \E i \in DOMAIN m.input : m.input[i] \in Range(n.output)}

RECURSIVE live_nodes(_, _)
live_nodes(ns, live) ==
    LET more == live \cup feeding(ns, live)
    IN IF more = live THEN live ELSE live_nodes(ns, more)

\* optimizer.optimize_graph (section 4.5): of its passes the dead-code
\* elimination acts on these graphs; it keeps the nodes the outputs depend on
optimize_graph(g) ==
    [g EXCEPT !.nodes = live_nodes(g.nodes,
                            {n \in g.nodes : Range(n.output) \cap GraphOutputs # {}})]

\* Graph.make_model: the model of the graph's nodes
make_model(g) == [none |-> FALSE, nodes |-> g.nodes]

\* utils.save_protobuf(output_path, model_proto)
save_protobuf(path, m) == [path |-> path, model |-> m]

\* the output_path parameter the entry point gave to _convert_common
output_path == (IF entry = "main" THEN main_call(args) ELSE api_call(args)).output_path

\* _convert_common after process_tf_graph returned (lines 165-174); the
\* optimized graph is kept in model, nodes stays the graph after dispatch
Finish ==
    /\ pc = "dispatch"
    /\ todo = <<>>
    /\ model' = make_model(optimize_graph(Graph))
    /\ written' = IF output_path # None THEN save_protobuf(output_path, model') ELSE written
    /\ pc' = "done"
    /\ UNCHANGED <<entry, args, kwargs, nodes, shapes, dtypes, calls, todo, last, failures,
                   registry, err, cmdline>>

Next == Main \/ FromKeras \/ FromFunction \/ FromGraph \/ Dispatch \/ Finish

Spec == Init /\ [][Next]_vars

----------------------------------------------------------------------------
(* Dispatch alone: one broadcast node and one node of a kind "Probe" whose  *)
(* registered versions are any set, under any requested version.            *)

ProbeNodes ==
    {Node("x", "Placeholder", <<>>, <<Out("x")>>, NoAttr, ONNX_DOMAIN),
     Node("y", "Placeholder", <<>>, <<Out("y")>>, NoAttr, ONNX_DOMAIN),
     Node("bop", "Add", <<Out("x"), Out("y")>>, <<Out("bop")>>, NoAttr, ONNX_DOMAIN),
     Node("probe", "Probe", <<Out("x")>>, <<Out("probe")>>, NoAttr, ONNX_DOMAIN)}

InitDispatch ==
    /\ pc = "dispatch"
    /\ entry = None
    /\ args = NoArgs
    /\ \E v \in 1..(MaxOpset + 1), coe \in BOOLEAN :
          kwargs = [_convert_common(ConvertDefaults) EXCEPT !.opset = v,
                                                            !.continue_on_error = coe]
    /\ \E S \in SUBSET (1..(MaxOpset + 1)) :
          registry = [kind \in DOMAIN Registered \cup {"Probe"} |->
                         IF kind = "Probe" THEN S ELSE Registered[kind]]
    /\ nodes = ProbeNodes
    /\ shapes = [t \in Tensors \cup {Out("probe")} |->
                    IF t = Out("x") THEN Shape(<<2>>) ELSE Shape(<<1, 2>>)]
    /\ dtypes = [t \in Tensors \cup {Out("probe")} |-> "float"]
    /\ todo = <<"bop", "probe">>
    /\ calls = {}
    /\ last = NoLast
    /\ failures = {}
    /\ err = "none"
    /\ model = NoModel
    /\ written = NoFile
    /\ cmdline = NoCommandLine

NextDispatch == Dispatch \/ Finish

SpecDispatch == InitDispatch /\ [][NextDispatch]_vars

----------------------------------------------------------------------------
(* The command line alone: get_args on any combination of the options its   *)
(* checks read.                                                             *)

SourcePaths == {None, "f"}

CommandLines ==
    [input : SourcePaths, graphdef : SourcePaths, checkpoint : SourcePaths,
     saved_model : SourcePaths, keras : SourcePaths, tflite : SourcePaths,
     inputs : {<<>>, <<"X:0">>}, outputs : {<<>>, <<"output:0">>},
     dequantize : BOOLEAN, extra_opset : {<<>>, <<"com.microsoft", "1">>, <<"bad">>}]

InitArgs ==
    /\ pc = "get_args"
    /\ entry = "main"
    /\ cmdline \in CommandLines
    /\ args = NoArgs
    /\ kwargs = _convert_common(ConvertDefaults)
    /\ nodes = {}
    /\ shapes = [t \in Tensors |-> NoShape]
    /\ dtypes = [t \in Tensors |-> "float"]
    /\ todo = <<>>
    /\ calls = {}
    /\ last = NoLast
    /\ failures = {}
    /\ registry = Registered
    /\ err = "none"
    /\ model = NoModel
    /\ written = NoFile

\* main, line 179: args = get_args()
GetArgs ==
    /\ pc = "get_args"
    /\ LET r == get_args(cmdline)
       IN /\ args' = r.args
          /\ err' = r.err
          /\ pc' = r.exit
    /\ UNCHANGED <<entry, kwargs, nodes, shapes, dtypes, calls, todo, last, failures,
                   registry, model, written, cmdline>>

NextArgs == GetArgs

SpecArgs == InitArgs /\ [][NextArgs]_vars

----------------------------------------------------------------------------
(* The broadcast handlers alone: one elementwise node over two inputs of    *)
(* any shapes, constant or not, under any target and requested version.     *)

MaxRank == 2

\* the shapes a tensor can have: unknown, or dims of rank 0..MaxRank
ShapeChoices ==
    {NoShape} \cup {Shape(d) : d \in UNION {[1..r -> {1, 2}] : r \in 0..MaxRank}}

BroadcastParams ==
    [type : BroadcastKinds, shape0 : ShapeChoices, shape1 : ShapeChoices,
     const0 : BOOLEAN, const1 : BOOLEAN, same : BOOLEAN, flag : {-1, 1},
     target : {{}, {TARGET_RS4}}, opset : 4..MaxOpset]

\* a constant's shape is the known shape of its value; a node reading one
\* tensor twice sees one shape
BroadcastWellFormed(p) ==
    /\ p.const0 => ~p.shape0.none
    /\ p.const1 => ~p.shape1.none
    /\ p.same => p.shape1 = p.shape0 /\ p.const1 = p.const0

BroadcastNodes(p) ==
    {Node("x", IF p.const0 THEN "Const" ELSE "Placeholder", <<>>, <<Out("x")>>,
          NoAttr, ONNX_DOMAIN),
     Node("y", IF p.const1 THEN "Const" ELSE "Placeholder", <<>>, <<Out("y")>>,
          NoAttr, ONNX_DOMAIN),
     Node("bop", p.type, <<Out("x"), IF p.same THEN Out("x") ELSE Out("y")>>, <<Out("bop")>>,
          [NoAttr EXCEPT !.broadcast = p.flag], ONNX_DOMAIN)}

InitBroadcast ==
    /\ pc = "dispatch"
    /\ entry = None
    /\ args = NoArgs
    /\ \E p \in BroadcastParams :
          /\ BroadcastWellFormed(p)
          /\ kwargs = [_convert_common(ConvertDefaults) EXCEPT !.opset = p.opset,
                                                                !.target = p.target]
          /\ nodes = BroadcastNodes(p)
          /\ shapes = [t \in Tensors |->
                          CASE t = Out("x") -> p.shape0
                            [] t = Out("y") -> p.shape1
                            [] OTHER -> NoShape]
    /\ dtypes = [t \in Tensors |-> "float"]
    /\ todo = <<"x", "y", "bop">>
    /\ calls = {}
    /\ last = NoLast
    /\ failures = {}
    /\ registry = Registered
    /\ err = "none"
    /\ model = NoModel
    /\ written = NoFile
    /\ cmdline = NoCommandLine

SpecBroadcast == InitBroadcast /\ [][NextDispatch]_vars

----------------------------------------------------------------------------
(* What the claims speak of                                                 *)

\* the node the last dispatch was about, as it was before the dispatch
LastNode == get_node_by_name(last.before, last.node)

\* the last dispatch ran a registered handler of this kind and it completed
Converted(kind) ==
    /\ last.node # None
    /\ last.version # NoHandler
    /\ last.err = "none"
    /\ LastNode.type = kind

\* the hash table node of the graph before the last dispatch, and its table
TableBefore == CHOOSE n \in last.before.nodes : n.type = "HashTableV2"
TableKeys == kwargs.initialized_tables.tab[TableBefore.attr.shared_name][1]
TableValues == kwargs.initialized_tables.tab[TableBefore.attr.shared_name][2]

ProducerBefore(t) == CHOOSE n \in last.before.nodes : t \in Range(n.output)

KeyBefore == ProducerBefore(LastNode.input[2])
DefaultBefore == ProducerBefore(LastNode.input[3])

\* the nodes the last dispatch created: those that stand where there was no
\* node before, or where the dispatched node was
Added ==
    {n \in nodes : \A m \in last.before.nodes : m.name = n.name => m = LastNode /\ n # m}

\* the value paired with key k in the table, the default when there is none
Paired(k) ==
    IF \E i \in DOMAIN TableKeys : TableKeys[i] = k
    THEN IntValue(TableValues[CHOOSE i \in DOMAIN TableKeys : TableKeys[i] = k])
    ELSE DefaultBefore.attr.value

\* C1: a converted lookup whose key is constant is replaced by exactly one
\* Const node of the same name and outputs, without inputs, whose value is
\* the table value paired with the key, or the default when the key is absent.
C1_StaticLookupFolding ==
    Converted("LookupTableFindV2") /\ KeyBefore.type = "Const" =>
        /\ LastNode \notin nodes
        /\ Added = {Node(LastNode.name, "Const", <<>>, LastNode.output,
                         [NoAttr EXCEPT !.value = Paired(KeyBefore.attr.value.s)],
                         ONNX_DOMAIN)}

\* C1 witnesses: key "b" of table {a:1, b:2} folded to 2
C1_Witness ==
    /\ Converted("LookupTableFindV2")
    /\ KeyBefore.type = "Const" /\ KeyBefore.attr.value.s = "b"
    /\ TableKeys = <<"a", "b">>
    /\ \E n \in nodes : n.name = "find" /\ n.type = "Const" /\ n.attr.value = IntValue(2)

\* C2: a converted lookup whose key is not constant is replaced by exactly
\* one CategoryMapper node of the ML domain with the lookup's name, outputs,
\* output shape and dtype, the key tensor as its only input, and the whole
\* table and the default value as attributes.
C2_CategoryMapper ==
    Converted("LookupTableFindV2") /\ KeyBefore.type # "Const" =>
        /\ LastNode \notin nodes
        /\ Added = {Node(LastNode.name, "CategoryMapper", <<LastNode.input[2]>>,
                         LastNode.output,
                         [NoAttr EXCEPT !.cats_strings = TableKeys,
                                        !.cats_int64s = TableValues,
                                        !.default_int64 = DefaultBefore.attr.value],
                         AI_ONNX_ML_DOMAIN)}
        /\ shapes[LastNode.output[1]] = last.before.shapes[LastNode.output[1]]
        /\ dtypes[LastNode.output[1]] = last.before.dtypes[LastNode.output[1]]

C2_Witness ==
    /\ Converted("LookupTableFindV2")
    /\ KeyBefore.type # "Const"
    /\ Len(TableKeys) = MaxKeys
    /\ \E n \in nodes : n.name = "find" /\ n.type = "CategoryMapper"

\* the tensors some node of the graph produces
Produced == UNION {Range(n.output) : n \in nodes}

\* C3: a converted table-size node is removed, a constant holding the number
\* of keys of the table is created, every former consumer of the size output
\* reads the constant instead, and no node reads a tensor nobody produces.
C3_TableSizeFolding ==
    Converted("LookupTableSizeV2") =>
        /\ LastNode \notin nodes
        /\ \E c \in Added :
              /\ Added = {c}
              /\ c.type = "Const" /\ c.input = <<>>
              /\ c.attr.value = IntValue(Len(TableKeys))
              /\ \A u \in last.before.nodes :
                    LastNode.output[1] \in Range(u.input) =>
                        \E w \in nodes :
                           /\ w.name = u.name
                           /\ DOMAIN w.input = DOMAIN u.input
                           /\ \A i \in DOMAIN u.input :
                                 w.input[i] = IF u.input[i] = LastNode.output[1]
                                              THEN c.output[1] ELSE u.input[i]
        /\ \A n \in nodes : Range(n.input) \subseteq Produced

C3_Witness ==
    /\ Converted("LookupTableSizeV2")
    /\ Len(TableKeys) = MaxKeys
    /\ \E u \in last.before.nodes : LastNode.output[1] \in Range(u.input)
    /\ \E n \in nodes : n.name = "size" /\ n.type = "Const"

\* C4: the handler selected for a node is the one with the greatest
\* registered minimum version not exceeding the requested version (of
\* version_4 and version_7 the broadcast handlers, the one that ran shows in
\* the broadcast attribute only version_4 sets); when no registered version
\* qualifies, or the kind is not registered, none is selected and the node
\* is unconverted: left as it was and recorded.
C4_VersionDispatch ==
    last.node # None =>
        LET R == handlers_of(registry, LastNode.type)
            V == kwargs.opset
        IN IF \E v \in R : v <= V
           THEN /\ last.version \in R
                /\ last.version <= V
                /\ \A w \in R : w <= V => w <= last.version
                /\ last.node \notin failures
                /\ LastNode.type \in BroadcastKinds =>
                      \E n \in nodes : /\ n.name = last.node
                                       /\ (n.attr.broadcast # -1) <=> (V < 7)
           ELSE /\ last.version = NoHandler
                /\ last.node \in failures
                /\ LastNode \in nodes

\* C4 witness: registered at {4, 7, 9}, requested 8, selected 7
C4_Witness ==
    /\ last.node = "probe"
    /\ registry["Probe"] = {4, 7, 9}
    /\ kwargs.opset = 8
    /\ last.version = 7

\* a precondition of the lookup handlers fails on the graph before the dispatch
PreconditionFails ==
    \/ TableBefore.attr.shared_name = None
    \/ kwargs.initialized_tables.none
    \/ TableBefore.attr.shared_name \notin DOMAIN kwargs.initialized_tables.tab
    \/ /\ LastNode.type = "LookupTableFindV2"
       /\ \/ DefaultBefore.type # "Const"
          \/ last.before.dtypes[LastNode.output[1]] # "int64"
          \/ last.before.dtypes[LastNode.input[2]] # "string"

\* C5: when a lookup handler runs on a node whose preconditions fail, it
\* ends with a fatal error that stops the conversion, and the graph is as it
\* was before the handler ran.
C5_PreconditionFailureLeavesGraph ==
    /\ last.node # None
    /\ last.version # NoHandler
    /\ LastNode.type \in {"LookupTableFindV2", "LookupTableSizeV2"}
    /\ PreconditionFails
    => /\ last.err # "none"
       /\ err = last.err
       /\ pc = "raised"
       /\ nodes = last.before.nodes
       /\ shapes = last.before.shapes
       /\ dtypes = last.before.dtypes

C5_Witness ==
    /\ pc = "raised"
    /\ last.node = "find"
    /\ last.err = "default not const"
    /\ DefaultBefore.type # "Const"

\* C6: whenever remove_node is called on a node, no other node consumes an
\* output of that node any more.
C6_RewireBeforeRemove == \A c \in calls : c.consumers = {}

\* C7: after a lookup or table-size node is converted, no table node and no
\* Identity node of the chain to it is left in the graph without consumers.
C7_UpstreamPruned ==
    Converted("LookupTableFindV2") \/ Converted("LookupTableSizeV2") =>
        \A n \in nodes :
            n.type \in {"HashTableV2", "Identity"} =>
                find_output_consumers(Graph, n.output[1]) # {}

\* C8: after any sequence of completed conversions, every tensor a node
\* reads is produced by exactly one node (the graphs declare no inputs
\* other than their Placeholder nodes).
C8_GraphInvariant ==
    pc \in {"dispatch", "done"} =>
        \A n \in nodes : \A t \in Range(n.input) :
            Cardinality({m \in nodes : t \in Range(m.output)}) = 1

\* C8 witness: lookup, size and broadcast node converted, the table pruned
C8_Witness ==
    /\ pc = "done"
    /\ ~has_node(Graph, "table")
    /\ \E n \in nodes : n.name = "find" /\ n.type = "CategoryMapper"
    /\ \E n \in nodes : n.name = "size" /\ n.type = "Const"
    /\ \E n \in nodes : n.name = "bop" /\ n.input = <<Out("y"), Out("x")>>

\* C9: with the caller's continue-on-error inactive the driver runs in abort
\* mode, and the conversion stops at the first unconvertible node.
C9_AbortMode ==
    entry = "main" /\ ~args.continue_on_error =>
        /\ ~kwargs.continue_on_error
        /\ failures # {} => pc = "raised"

\* the custom-op dictionary the caller supplied
SuppliedCustomOps ==
    IF entry = "main" THEN main_custom_ops(args.cli_custom_ops) ELSE args.custom_ops

\* C10: every custom-op handler the caller supplied is in the dictionary the
\* driver receives, and a node of a kind with a custom handler ends tagged
\* with the caller's domain.
C10_CustomHandlersReachDriver ==
    pc # "start" /\ ~SuppliedCustomOps.none =>
        \A k \in DOMAIN SuppliedCustomOps.map :
            /\ has_custom_handler(kwargs.custom_op_handlers, k)
            /\ kwargs.custom_op_handlers.map[k] = SuppliedCustomOps.map[k]
            /\ pc = "done" =>
                  \A n \in nodes : n.type = k => n.domain = SuppliedCustomOps.map[k]

\* C11: the ignore_default value the caller gives to _convert_common (the
\* list the command line parsed from --ignore_default) is the value the
\* conversion driver receives.
C11_IgnoreDefaultHonoured ==
    entry = "main" =>
        kwargs.ignore_default = split_comma(args.ignore_default)

\* C12: a run through _convert_common ends either with a model returned (and
\* written when output_path is given) in which no unconvertible node remains,
\* or raised; when the source graph holds an unsupported operation kind or
\* the dispatch raises, no model is returned and nothing is written.
C12_ModelOrError ==
    /\ pc = "done" =>
          /\ model # NoModel
          /\ \A n \in model.nodes : n.name \notin failures
          /\ output_path # None => written = save_protobuf(output_path, model)
    /\ pc = "raised" => model = NoModel /\ written = NoFile
    /\ pc \in {"done", "raised"} /\ failures # {} => model = NoModel /\ written = NoFile

\* the command line names a graphdef or checkpoint source
GraphdefOrCheckpoint ==
    cmdline.graphdef # None \/ cmdline.input # None \/ cmdline.checkpoint # None

\* C13: a command line with a graphdef or checkpoint source (--graphdef,
\* --input or --checkpoint) is rejected with the parser error about inputs
\* and outputs unless both --inputs and --outputs are given.
C13_NeedsInputsAndOutputs ==
    pc # "get_args" /\ GraphdefOrCheckpoint
        /\ (cmdline.inputs = <<>> \/ cmdline.outputs = <<>>)
    => /\ pc = "error"
       /\ err = "graphdef and checkpoint models need to provide inputs and outputs"

\* the last dispatch ran a broadcast handler on the elementwise node
BroadcastConverted ==
    /\ last.node = "bop"
    /\ last.err = "none"
    /\ last.version \in {4, 7}

BopBefore == LastNode
BopAfter == get_node_by_name(Graph, "bop")
Shape0Before == last.before.shapes[BopBefore.input[1]]
Shape1Before == last.before.shapes[BopBefore.input[2]]

\* the shape of input i as the claim counts it: a constant scalar is [1]
\* under the RS4 target
Promoted(i) ==
    LET sh == last.before.shapes[BopBefore.input[i]]
    IN IF TARGET_RS4 \in kwargs.target /\ sh = Shape(<<>>)
          /\ ProducerBefore(BopBefore.input[i]).type = "Const"
       THEN Shape(<<1>>)
       ELSE sh

KnownNonEmpty(sh) == ~sh.none /\ Len(sh.dims) > 0

SwapCase ==
    /\ BopBefore.type \in {"Mul", "Add"}
    /\ Shape0Before # Shape1Before
    /\ KnownNonEmpty(Promoted(1)) /\ KnownNonEmpty(Promoted(2))
    /\ Len(Promoted(1).dims) < Len(Promoted(2).dims)

Swapped(inp) == <<inp[2], inp[1]>>

InputsOf(r) == get_node_by_name(r.g, "bop").input

\* C14: a broadcast handler swaps the two inputs when the node is a Mul or an
\* Add, the shapes differ, both shapes are known and non-empty (a constant
\* scalar counting as [1] under RS4) and input 0 has the lower rank, and
\* leaves the order as it was in every other case, always for Sub; the inputs
\* are the same two as before; version_4 and version_7 leave the same order.
C14_BroadcastInputOrder ==
    BroadcastConverted =>
        /\ BopAfter.input = IF SwapCase THEN Swapped(BopBefore.input) ELSE BopBefore.input
        /\ BopBefore.type \notin {"Mul", "Add"} => BopAfter.input = BopBefore.input
        /\ Len(BopAfter.input) = 2
        /\ BopAfter.input \in {BopBefore.input, Swapped(BopBefore.input)}
        /\ InputsOf(BroadcastOp_version_4(last.before, BopBefore, kwargs.target))
             = InputsOf(BroadcastOp_version_7(last.before, BopBefore, kwargs.target))

\* a swap that the promotion of a constant scalar made possible
C14_Witness ==
    /\ BroadcastConverted
    /\ SwapCase
    /\ Shape0Before = Shape(<<>>)
    /\ BopAfter.input = Swapped(BopBefore.input)
    /\ BopAfter.input # BopBefore.input

\* C15: after version_4 the node's broadcast attribute is 1 when the shapes of
\* its two inputs differ and 0 when they are equal, two unknown shapes being
\* equal, whatever the target and the swap; version_7 leaves the node's
\* attributes as they were.
C15_BroadcastFlag ==
    BroadcastConverted =>
        /\ last.version = 4 =>
              BopAfter.attr.broadcast = IF Shape0Before # Shape1Before THEN 1 ELSE 0
        /\ last.version = 7 => BopAfter.attr = BopBefore.attr

\* version_4 on two different inputs of unknown shape, a flag replaced by 0
C15_Witness ==
    /\ BroadcastConverted
    /\ last.version = 4
    /\ BopBefore.input[1] # BopBefore.input[2]
    /\ Shape0Before = NoShape /\ Shape1Before = NoShape
    /\ BopBefore.attr.broadcast = 1
    /\ BopAfter.attr.broadcast = 0

====
